---------------------------- MODULE Spec2Model ----------------------------
(***************************************************************************)
(* Model of pdf_generator.py: the record selector (get_invoice_ids,        *)
(* find_record_by_invoice_id), the template renderer (render_template),    *)
(* the document generator (generate_pdf) and the interactive flow (main,   *)
(* get_user_choice, the __main__ guard).                                   *)
(*                                                                         *)
(* Text is a sequence of symbols.  A symbol is a one-character string      *)
(* ("{", "}", ":", "1", ...) or a lexeme that the code never looks inside  *)
(* (a word, an HTML tag, a fixed fragment of markup).                      *)
(***************************************************************************)
EXTENDS Integers, Sequences, FiniteSets, TLC

VARIABLES
    pc,                 \* position of the running call / of main()
    data,               \* list of records (load_data_file result)
    query,              \* invoice_id argument of find_record_by_invoice_id
    invoice_ids,        \* result of get_invoice_ids
    record,             \* result of find_record_by_invoice_id / record rendered
    template,           \* template file: [readable, text]
    html_content,       \* result of render_template / argument of generate_pdf
    font,               \* CYRILLIC_FONT_PATH: [path, exists]
    pdf_html,           \* html handed to pisa.CreatePDF
    output,             \* OUTPUT_DIR: file name -> content or NoFile
    sel,                \* main(): [data_choice, template_choice, invoice_choice]
    last_input,         \* last line typed at a prompt, with the prompt it was typed at
    exit_code,          \* process exit status, Running while the process lives
    run,                \* number of the current process run
    trail               \* what the current run did: rendered, unlink, renderer, wrote, raised

vars == <<pc, data, query, invoice_ids, record, template, html_content, font,
          pdf_html, output, sel, last_input, exit_code, run, trail>>

-----------------------------------------------------------------------------
(* Bounds of the model *)

MaxRecords == 3
MaxTemplateLen == 5
MaxHtmlLen == 3
MaxRuns == 2

-----------------------------------------------------------------------------
(* Python values and str() *)

NoneV == [kind |-> "none", n |-> 0, s |-> <<>>]
NaNV == [kind |-> "nan", n |-> 0, s |-> <<>>]
IntV(i) == [kind |-> "int", n |-> i, s |-> <<>>]
StrV(t) == [kind |-> "str", n |-> 0, s |-> t]

\* bool(value): None, 0 and '' are falsy; float('nan') is truthy
Truthy(v) ==
    CASE v.kind = "none" -> FALSE
      [] v.kind = "nan" -> TRUE
      [] v.kind = "int" -> v.n # 0
      [] v.kind = "str" -> v.s # <<>>

DigitChar == <<"0", "1", "2", "3", "4", "5", "6", "7", "8", "9">>

RECURSIVE IntToStr(_)
IntToStr(i) ==
    IF i < 10 THEN <<DigitChar[i + 1]>>
    ELSE IntToStr(i \div 10) \o <<DigitChar[(i % 10) + 1]>>

\* str(value)
Str(v) ==
    CASE v.kind = "none" -> <<"N", "o", "n", "e">>
      [] v.kind = "nan" -> <<"n", "a", "n">>
      [] v.kind = "int" -> IntToStr(v.n)
      [] v.kind = "str" -> v.s

\* ord(c) of the characters identifiers are made of here
CodePoint(c) ==
    CASE c = "0" -> 48 [] c = "1" -> 49 [] c = "2" -> 50 [] c = "3" -> 51
      [] c = "4" -> 52 [] c = "5" -> 53 [] c = "6" -> 54 [] c = "7" -> 55
      [] c = "8" -> 56 [] c = "9" -> 57 [] c = "A" -> 65 [] c = "N" -> 78
      [] c = "a" -> 97 [] c = "e" -> 101 [] c = "n" -> 110 [] c = "o" -> 111
      [] OTHER -> 120

\* s < t for Python str: first differing character decides, a proper prefix is smaller
RECURSIVE StrLess(_, _)
StrLess(s, t) ==
    IF t = <<>> THEN FALSE
    ELSE IF s = <<>> THEN TRUE
    ELSE IF CodePoint(Head(s)) # CodePoint(Head(t))
         THEN CodePoint(Head(s)) < CodePoint(Head(t))
    ELSE StrLess(Tail(s), Tail(t))

-----------------------------------------------------------------------------
(* Records: a dict is the sequence of its <<key, value>> items, in insertion order *)

Keys(rec) == {rec[i][1] : i \in 1..Len(rec)}

\* dict.get(key): the value, None when the key is absent
Get(rec, key) ==
    IF key \in Keys(rec)
    THEN rec[CHOOSE i \in 1..Len(rec) : rec[i][1] = key][2]
    ELSE NoneV

\* a or b or c or d or e: the first truthy operand, else the last one
FallbackChain(rec) ==
    IF Truthy(Get(rec, "invoice_id")) THEN Get(rec, "invoice_id")
    ELSE IF Truthy(Get(rec, "invoiceId")) THEN Get(rec, "invoiceId")
    ELSE IF Truthy(Get(rec, "invoice")) THEN Get(rec, "invoice")
    ELSE IF Truthy(Get(rec, "id")) THEN Get(rec, "id")
    ELSE Get(rec, "ID")

Contains(list, x) == \E i \in 1..Len(list) : list[i] = x

\* sorted(list of str): insertion into an ascending list
RECURSIVE InsertSorted(_, _)
InsertSorted(x, list) ==
    IF list = <<>> THEN <<x>>
    ELSE IF StrLess(Head(list), x) THEN <<Head(list)>> \o InsertSorted(x, Tail(list))
    ELSE <<x>> \o list

\* a faulty variant: numeric order, as sorted(..., key=int) gives on digit strings
NumLess(s, t) == Len(s) < Len(t) \/ (Len(s) = Len(t) /\ StrLess(s, t))

RECURSIVE InsertNumeric(_, _)
InsertNumeric(x, list) ==
    IF list = <<>> THEN <<x>>
    ELSE IF NumLess(Head(list), x) THEN <<Head(list)>> \o InsertNumeric(x, Tail(list))
    ELSE <<x>> \o list

RECURSIVE sorted_numeric(_)
sorted_numeric(list) ==
    IF list = <<>> THEN <<>> ELSE InsertNumeric(Head(list), sorted_numeric(Tail(list)))

RECURSIVE sorted(_)
sorted(list) ==
    IF list = <<>> THEN <<>> ELSE InsertSorted(Head(list), sorted(Tail(list)))

\* the loop of get_invoice_ids: append str(id) when truthy and not yet listed
RECURSIVE CollectIds(_, _)
CollectIds(d, acc) ==
    IF d = <<>> THEN acc
    ELSE LET invoice_id == FallbackChain(Head(d))
         IN IF Truthy(invoice_id) /\ ~Contains(acc, Str(invoice_id))
            THEN CollectIds(Tail(d), Append(acc, Str(invoice_id)))
            ELSE CollectIds(Tail(d), acc)

get_invoice_ids(d) == sorted(CollectIds(d, <<>>))

\* None, the result of a search that matches nothing
NotFound == [found |-> FALSE, rec |-> <<>>]

\* first record whose str(fallback chain) equals str(invoice_id), else None
RECURSIVE find_record_by_invoice_id(_, _)
find_record_by_invoice_id(d, invoice_id) ==
    IF d = <<>> THEN NotFound
    ELSE IF Str(FallbackChain(Head(d))) = invoice_id THEN [found |-> TRUE, rec |-> Head(d)]
    ELSE find_record_by_invoice_id(Tail(d), invoice_id)

-----------------------------------------------------------------------------
(* Text helpers of the renderer *)

Min(S) == CHOOSE x \in S : \A y \in S : x <= y

MatchesAt(s, i, pat) ==
    /\ i + Len(pat) - 1 <= Len(s)
    /\ SubSeq(s, i, i + Len(pat) - 1) = pat

\* leftmost, non-overlapping replacement of a literal (re.sub of a literal, str.replace)
RECURSIVE ReplaceFrom(_, _, _, _)
ReplaceFrom(s, i, pat, rep) ==
    IF i > Len(s) THEN <<>>
    ELSE IF MatchesAt(s, i, pat) THEN rep \o ReplaceFrom(s, i + Len(pat), pat, rep)
    ELSE <<s[i]>> \o ReplaceFrom(s, i + 1, pat, rep)

ReplaceAll(s, pat, rep) == ReplaceFrom(s, 1, pat, rep)

HasSub(s, pat) == \E i \in 1..Len(s) : MatchesAt(s, i, pat)

\* the markers '\x00OPEN\x00' and '\x00CLOSE\x00'
OPEN_MARK == <<"NUL", "OPEN", "NUL">>
CLOSE_MARK == <<"NUL", "CLOSE", "NUL">>

\* r'\{' + re.escape(key) + r'(?::[^}]*)?\}' tried at position i: the index of the
\* match's last symbol, 0 when there is no match at i
PlaceholderEnd(s, i, key) ==
    IF i + 2 <= Len(s) /\ s[i] = "{" /\ s[i + 1] = key
    THEN IF s[i + 2] = "}" THEN i + 2
         ELSE IF s[i + 2] = ":"
              THEN LET closers == {e \in (i + 3)..Len(s) : s[e] = "}"}
                   IN IF closers = {} THEN 0 ELSE Min(closers)
              ELSE 0
    ELSE 0

\* re.sub(pattern, lambda m: str(value), rendered)
RECURSIVE SubFrom(_, _, _, _)
SubFrom(s, i, key, value) ==
    IF i > Len(s) THEN <<>>
    ELSE IF PlaceholderEnd(s, i, key) # 0
         THEN value \o SubFrom(s, PlaceholderEnd(s, i, key) + 1, key, value)
    ELSE <<s[i]>> \o SubFrom(s, i + 1, key, value)

\* d[key] = value on an insertion-ordered dict
DictSet(d, key, value) ==
    IF key \in Keys(d)
    THEN [i \in 1..Len(d) |-> IF d[i][1] = key THEN <<key, value>> ELSE d[i]]
    ELSE Append(d, <<key, value>>)

\* '' for None and NaN, else str(value)
Display(v) == IF v.kind \in {"none", "nan"} THEN <<>> ELSE Str(v)

RECURSIVE CopyItems(_, _)
CopyItems(items, d) ==
    IF items = <<>> THEN d
    ELSE CopyItems(Tail(items), DictSet(d, Head(items)[1], Display(Head(items)[2])))

\* a faulty variant: "if data.get('tax'):", which drops a tax of 0 or ''
TaxRowIfTruthy(rec) ==
    IF "tax" \in Keys(rec) /\ Truthy(Get(rec, "tax"))
    THEN <<"<div class=amount-row><span>NDS", ":", "</span><span>">>
         \o Str(Get(rec, "tax")) \o <<" rub.</span></div>">>
    ELSE <<>>

TaxRow(rec) ==
    IF "tax" \in Keys(rec) /\ Get(rec, "tax").kind # "none"
    THEN <<"<div class=amount-row><span>NDS", ":", "</span><span>">>
         \o Str(Get(rec, "tax")) \o <<" rub.</span></div>">>
    ELSE <<>>

TotalRow(rec) ==
    IF "total" \in Keys(rec) /\ Get(rec, "total").kind # "none"
    THEN <<"<div class=amount-row total><span>Itogo", ":", "</span><span>">>
         \o Str(Get(rec, "total")) \o <<" rub.</span></div>">>
    ELSE <<>>

\* template_data: the record's items as strings, then tax_row and total_row
TemplateData(rec) ==
    DictSet(DictSet(CopyItems(rec, <<>>), "tax_row", TaxRow(rec)),
            "total_row", TotalRow(rec))

\* for key, value in template_data.items(): rendered = re.sub(...)
RECURSIVE SubstituteKeys(_, _)
SubstituteKeys(rendered, items) ==
    IF items = <<>> THEN rendered
    ELSE SubstituteKeys(SubFrom(rendered, 1, Head(items)[1], Head(items)[2]),
                        Tail(items))

Protect(text) ==
    ReplaceAll(ReplaceAll(text, <<"{", "{">>, OPEN_MARK), <<"}", "}">>, CLOSE_MARK)

Restore(text) ==
    ReplaceAll(ReplaceAll(text, OPEN_MARK, <<"{", "{">>), CLOSE_MARK, <<"}", "}">>)

\* render_template: [raised, text].  A template that cannot be opened or decoded
\* fails before "template" is bound, so the handler's "return template" raises
\* UnboundLocalError; with a dict for data nothing after the read can fail.
render_template(tpl, rec) ==
    IF ~tpl.readable THEN [raised |-> TRUE, text |-> <<>>]
    ELSE [raised |-> FALSE,
          text |-> Restore(SubstituteKeys(Protect(tpl.text), TemplateData(rec)))]

-----------------------------------------------------------------------------
(* generate_pdf: the injected styles *)

\* font: found = CYRILLIC_FONT_PATH is set, exists = os.path.exists(CYRILLIC_FONT_PATH)
font_face_css(f) ==
    IF f.found /\ f.exists
    THEN <<"@font-face{Arial;src:url}", "@font-face{sans-serif;src:url}">>
    ELSE <<>>

font_family(f) ==
    IF f.found THEN "*{font-family:Arial,Helvetica,sans-serif!important}"
    ELSE "*{font-family:Arial,sans-serif!important}"

style_tag(f) ==
    <<"<style>">> \o font_face_css(f)
    \o <<"@page{size:A4;margin:2cm}", font_family(f), "body{font-size:12pt}", "</style>">>

font_override(f) ==
    <<"<style>">> \o font_face_css(f) \o <<font_family(f), "</style>">>

\* html.replace('</head>', css + '</head>').replace('</HEAD>', css + '</HEAD>')
BeforeHead(html, css) ==
    ReplaceAll(ReplaceAll(html, <<"</head>">>, css \o <<"</head>">>),
               <<"</HEAD>">>, css \o <<"</HEAD>">>)

\* html.replace('<body>', '<body>' + css).replace('<BODY>', '<BODY>' + css)
AfterBody(html, css) ==
    ReplaceAll(ReplaceAll(html, <<"<body>">>, <<"<body>">> \o css),
               <<"<BODY>">>, <<"<BODY>">> \o css)

\* lines 300-328: the html handed to the renderer
InjectStyles(html, f) ==
    IF ~Contains(html, "<style>") /\ ~Contains(html, "<STYLE>")
    THEN IF Contains(html, "</head>") \/ Contains(html, "</HEAD>")
         THEN BeforeHead(html, style_tag(f))
         ELSE IF Contains(html, "<body>") \/ Contains(html, "<BODY>")
              THEN AfterBody(html, style_tag(f))
              ELSE style_tag(f) \o html
    ELSE IF Contains(html, "</head>") \/ Contains(html, "</HEAD>")
         THEN BeforeHead(html, font_override(f))
         ELSE IF Contains(html, "<body>") \/ Contains(html, "<BODY>")
              THEN AfterBody(html, font_override(f))
              ELSE html

-----------------------------------------------------------------------------
(* generate_pdf: the output file *)

NoFile == [by |-> 0, html |-> <<>>, complete |-> FALSE]

\* output_filename = f"invoice_{selected_invoice_id}.pdf"; a name is <<id, suffix>>,
\* the suffix being "" for the name main() builds
OutputPath(invoice_id) == <<invoice_id, "">>

\* a faulty variant: a failed unlink is ignored and the file is written over
RemoveExistingIgnoringFailure(out, path, unlink_ok) ==
    IF out[path] # NoFile /\ unlink_ok
    THEN [raised |-> FALSE, output |-> [out EXCEPT ![path] = NoFile]]
    ELSE [raised |-> FALSE, output |-> out]

\* lines 332-338: [raised, output]; unlink_ok = FALSE is the PermissionError
RemoveExisting(out, path, unlink_ok) ==
    IF out[path] # NoFile
    THEN IF unlink_ok THEN [raised |-> FALSE, output |-> [out EXCEPT ![path] = NoFile]]
         ELSE [raised |-> TRUE, output |-> out]
    ELSE [raised |-> FALSE, output |-> out]

\* lines 340-371: [raised, output, renderer]; open(path, 'w+b') creates or truncates,
\* pisa.CreatePDF writes into it, a renderer error leaves what was written so far
WritePdf(out, path, html, open_ok, pisa_err, r) ==
    IF ~open_ok THEN [raised |-> TRUE, output |-> out, renderer |-> FALSE]
    ELSE [raised |-> pisa_err,
          output |-> [out EXCEPT ![path] = [by |-> r, html |-> html, complete |-> ~pisa_err]],
          renderer |-> TRUE]

-----------------------------------------------------------------------------
(* The interactive flow: get_user_choice, main, the __main__ guard *)

Running == -1

\* a line typed at a prompt: an empty line, Ctrl-C, something int() rejects, a number
EmptyInput == [kind |-> "empty", n |-> 0]
Interrupt == [kind |-> "interrupt", n |-> 0]
TextInput == [kind |-> "text", n |-> 0]
IntInput(i) == [kind |-> "int", n |-> i]

MaxInput == 4
Inputs == {EmptyInput, Interrupt, TextInput} \cup {IntInput(i) : i \in -1..MaxInput}

\* a faulty variant: "except ValueError: return None"
get_user_choice_giving_up(inp, max_value) ==
    CASE inp.kind = "interrupt" -> [kind |-> "exit", n |-> 0]
      [] inp.kind = "empty" -> [kind |-> "none", n |-> 0]
      [] inp.kind = "text" -> [kind |-> "none", n |-> 0]
      [] inp.kind = "int" ->
            IF 1 <= inp.n /\ inp.n <= max_value THEN [kind |-> "choice", n |-> inp.n]
            ELSE [kind |-> "again", n |-> 0]

\* one turn of the loop of get_user_choice: "exit" is sys.exit(0), "none" is
\* return None, "again" is the next turn of the loop, "choice" is return choice_num
get_user_choice(inp, max_value) ==
    CASE inp.kind = "interrupt" -> [kind |-> "exit", n |-> 0]
      [] inp.kind = "empty" -> [kind |-> "none", n |-> 0]
      [] inp.kind = "text" -> [kind |-> "again", n |-> 0]
      [] inp.kind = "int" ->
            IF 1 <= inp.n /\ inp.n <= max_value THEN [kind |-> "choice", n |-> inp.n]
            ELSE [kind |-> "again", n |-> 0]

Item(k, v) == <<k, v>>

\* what load_data_file returns for the files of data/: records with identifiers,
\* a file that does not parse, records without any identifier field
DataFiles ==
    << << <<Item("id", StrV(<<"2">>)), Item("amount", StrV(<<"5", "0">>))>>,
          <<Item("id", StrV(<<"1", "0">>)), Item("amount", IntV(7))>>,
          <<Item("id", StrV(<<"1">>)), Item("amount", NoneV)>>,
          <<Item("id", IntV(2)), Item("amount", StrV(<<"9">>))>> >>,
       << >>,
       << <<Item("amount", StrV(<<"5">>))>> >> >>

NoTemplate == [readable |-> FALSE, text |-> <<>>]

\* the files of templates/: one that reads, one that cannot be opened
TemplateFiles ==
    << [readable |-> TRUE,
        text |-> <<"<p>", "{", "id", "}", ":", "{", "amount", "}", "</p>">>],
       NoTemplate >>

Fonts == {[found |-> TRUE, exists |-> TRUE], [found |-> TRUE, exists |-> FALSE],
          [found |-> FALSE, exists |-> FALSE]}

Suffixes == {"", "_1"}
MainIds == {get_invoice_ids(DataFiles[1])[i] : i \in 1..Len(get_invoice_ids(DataFiles[1]))}
FileNames == MainIds \X Suffixes
EmptyDir == [name \in FileNames |-> NoFile]

NoSel == [data_files |-> 0, template_files |-> 0,
          data_choice |-> 0, template_choice |-> 0, invoice_choice |-> 0]
NoInput == [at |-> "none", inp |-> EmptyInput]
NoTrail == [cancelled |-> FALSE, rendered |-> FALSE, existed |-> FALSE,
            renderer |-> FALSE, raised |-> FALSE, gen |-> "none"]

Prompts == {"ask_data", "ask_template", "ask_invoice"}

\* the process ends: main() returned or sys.exit(code) ran
Exit(code) == /\ pc' = "exited"
              /\ exit_code' = code

\* lines 446-472: list the files, stop when either directory is empty
MainStart ==
    /\ pc = "start"
    /\ \E nd \in {0, Len(DataFiles)}, nt \in {0, Len(TemplateFiles)} :
         /\ sel' = [sel EXCEPT !.data_files = nd, !.template_files = nt]
         /\ IF nd = 0 \/ nt = 0 THEN Exit(0)
            ELSE pc' = "ask_data" /\ exit_code' = exit_code
    /\ UNCHANGED <<data, query, invoice_ids, record, template, html_content, font,
                   pdf_html, output, last_input, run, trail>>

\* a prompt that ends the run: sys.exit(0) on Ctrl-C, main() returning on None
Cancel(r) ==
    /\ r.kind \in {"exit", "none"}
    /\ Exit(0)
    /\ trail' = [trail EXCEPT !.cancelled = TRUE]

\* a prompt that asks again
Reprompt(r) ==
    /\ r.kind = "again"
    /\ UNCHANGED <<pc, exit_code, trail>>

\* lines 475-490: choose the data file and load it
AskData(inp) ==
    /\ pc = "ask_data"
    /\ last_input' = [at |-> pc, inp |-> inp]
    /\ LET r == get_user_choice(inp, sel.data_files)
       IN \/ Cancel(r) /\ UNCHANGED <<data, sel>>
          \/ Reprompt(r) /\ UNCHANGED <<data, sel>>
          \/ /\ r.kind = "choice"
             /\ sel' = [sel EXCEPT !.data_choice = r.n]
             /\ data' = DataFiles[r.n]
             /\ IF data' = <<>> THEN Exit(0)
                ELSE pc' = "ask_template" /\ exit_code' = exit_code
             /\ UNCHANGED trail
    /\ UNCHANGED <<query, invoice_ids, record, template, html_content, font,
                   pdf_html, output, run>>

\* lines 493-506: choose the template, list the invoice ids
AskTemplate(inp) ==
    /\ pc = "ask_template"
    /\ last_input' = [at |-> pc, inp |-> inp]
    /\ LET r == get_user_choice(inp, sel.template_files)
       IN \/ Cancel(r) /\ UNCHANGED <<template, invoice_ids, sel>>
          \/ Reprompt(r) /\ UNCHANGED <<template, invoice_ids, sel>>
          \/ /\ r.kind = "choice"
             /\ sel' = [sel EXCEPT !.template_choice = r.n]
             /\ template' = TemplateFiles[r.n]
             /\ invoice_ids' = get_invoice_ids(data)
             /\ IF invoice_ids' = <<>> THEN Exit(0)
                ELSE pc' = "ask_invoice" /\ exit_code' = exit_code
             /\ UNCHANGED trail
    /\ UNCHANGED <<data, query, record, html_content, font, pdf_html, output, run>>

\* lines 516-528: choose the invoice id, find its record ("not record" is also
\* true of an empty dict)
AskInvoice(inp) ==
    /\ pc = "ask_invoice"
    /\ last_input' = [at |-> pc, inp |-> inp]
    /\ LET r == get_user_choice(inp, Len(invoice_ids))
       IN \/ Cancel(r) /\ UNCHANGED <<query, record, sel>>
          \/ Reprompt(r) /\ UNCHANGED <<query, record, sel>>
          \/ /\ r.kind = "choice"
             /\ sel' = [sel EXCEPT !.invoice_choice = r.n]
             /\ query' = invoice_ids[r.n]
             /\ record' = find_record_by_invoice_id(data, query')
             /\ IF ~record'.found \/ record'.rec = <<>> THEN Exit(0)
                ELSE pc' = "render" /\ exit_code' = exit_code
             /\ UNCHANGED trail
    /\ UNCHANGED <<data, invoice_ids, template, html_content, font, pdf_html,
                   output, run>>

\* line 536: render_template is called outside main's try, so what it raises
\* reaches the __main__ guard: traceback, sys.exit(1)
Render ==
    /\ pc = "render"
    /\ LET r == render_template(template, record.rec)
       IN IF r.raised
          THEN /\ Exit(1)
               /\ trail' = [trail EXCEPT !.raised = TRUE]
               /\ UNCHANGED html_content
          ELSE /\ pc' = "generate"
               /\ html_content' = r.text
               /\ trail' = [trail EXCEPT !.rendered = TRUE]
               /\ UNCHANGED exit_code
    /\ UNCHANGED <<data, query, invoice_ids, record, template, font, pdf_html,
                   output, sel, last_input, run>>

\* lines 268-338 of generate_pdf: inject the styles, remove the file that is there.
\* What generate_pdf raises is caught at line 553: main prints and returns.
GenPrepare ==
    /\ pc = "generate"
    /\ pdf_html' = InjectStyles(html_content, font)
    /\ \E unlink_ok \in BOOLEAN :
         LET path == OutputPath(query)
             r == RemoveExisting(output, path, unlink_ok)
         IN /\ output' = r.output
            /\ IF r.raised
               THEN /\ Exit(0)
                    /\ trail' = [trail EXCEPT !.existed = TRUE, !.raised = TRUE,
                                              !.gen = "unlink_failed"]
               ELSE /\ pc' = "write"
                    /\ trail' = [trail EXCEPT !.existed = (output[path] # NoFile)]
                    /\ UNCHANGED exit_code
    /\ UNCHANGED <<data, query, invoice_ids, record, template, html_content, font,
                   sel, last_input, run>>

\* lines 340-376 of generate_pdf and lines 545-555 of main: open the file, run the
\* renderer; then open_pdf (best effort) and the normal end of main
GenWrite ==
    /\ pc = "write"
    /\ \E open_ok \in BOOLEAN, pisa_err \in BOOLEAN :
         LET w == WritePdf(output, OutputPath(query), pdf_html, open_ok, pisa_err, run)
         IN /\ output' = w.output
            /\ trail' = [trail EXCEPT !.renderer = w.renderer, !.raised = w.raised,
                            !.gen = IF ~w.raised THEN "ok"
                                    ELSE IF w.renderer THEN "renderer_error"
                                    ELSE "open_failed"]
    /\ Exit(0)
    /\ UNCHANGED <<data, query, invoice_ids, record, template, html_content, font,
                   pdf_html, sel, last_input, run>>

\* the tool is started again; output/ is what the earlier runs left
Restart ==
    /\ pc = "exited"
    /\ run < MaxRuns
    /\ run' = run + 1
    /\ pc' = "start"
    /\ exit_code' = Running
    /\ data' = <<>>
    /\ query' = <<>>
    /\ invoice_ids' = <<>>
    /\ record' = NotFound
    /\ template' = NoTemplate
    /\ html_content' = <<>>
    /\ pdf_html' = <<>>
    /\ sel' = NoSel
    /\ last_input' = NoInput
    /\ trail' = NoTrail
    /\ UNCHANGED <<font, output>>

InitMain ==
    /\ pc = "start"
    /\ exit_code = Running
    /\ run = 1
    /\ data = <<>>
    /\ query = <<>>
    /\ invoice_ids = <<>>
    /\ record = NotFound
    /\ template = NoTemplate
    /\ html_content = <<>>
    /\ pdf_html = <<>>
    /\ font \in Fonts
    /\ output = EmptyDir
    /\ sel = NoSel
    /\ last_input = NoInput
    /\ trail = NoTrail

NextMain ==
    \/ MainStart
    \/ \E inp \in Inputs : AskData(inp)
    \/ \E inp \in Inputs : AskTemplate(inp)
    \/ \E inp \in Inputs : AskInvoice(inp)
    \/ Render
    \/ GenPrepare
    \/ GenWrite
    \/ Restart

SpecMain == InitMain /\ [][NextMain]_vars

-----------------------------------------------------------------------------
(* The selector functions on bounded lists of records *)

\* all sequences of at most n elements of S
RECURSIVE SeqsUpTo(_, _)
SeqsUpTo(S, n) ==
    IF n = 0 THEN {<<>>}
    ELSE LET shorter == SeqsUpTo(S, n - 1)
         IN shorter \cup {Append(q, x) : q \in {t \in shorter : Len(t) = n - 1}, x \in S}

\* records as a CSV or JSON file gives them: no identifier field, one identifier
\* field with a string, a number, '' or null, several identifier fields, the
\* string "None" as identifier
SelectRecords ==
    { <<Item("amount", StrV(<<"5">>))>>,
      <<Item("id", StrV(<<"2">>))>>,
      <<Item("id", StrV(<<"1", "0">>))>>,
      <<Item("id", StrV(<<"1">>))>>,
      <<Item("id", IntV(1))>>,
      <<Item("id", IntV(0))>>,
      <<Item("id", StrV(<<>>))>>,
      <<Item("id", NoneV)>>,
      <<Item("ID", IntV(10))>>,
      <<Item("invoice_id", StrV(<<"2">>)), Item("id", StrV(<<"1">>))>>,
      <<Item("invoice_id", StrV(<<>>)), Item("ID", StrV(<<"1", "0">>))>>,
      <<Item("invoiceId", IntV(0)), Item("invoice", StrV(<<"A">>))>>,
      <<Item("id", StrV(<<"N", "o", "n", "e">>))>> }

Queries == { <<"1">>, <<"1", "0">>, <<"3">>, <<"0">>, <<>>, <<"N", "o", "n", "e">> }

SelectIdle ==
    /\ exit_code = Running
    /\ run = 1
    /\ query = <<>>
    /\ invoice_ids = <<>>
    /\ record = NotFound
    /\ template = NoTemplate
    /\ html_content = <<>>
    /\ pdf_html = <<>>
    /\ font = [found |-> FALSE, exists |-> FALSE]
    /\ output = EmptyDir
    /\ sel = NoSel
    /\ last_input = NoInput
    /\ trail = NoTrail

InitSelect ==
    /\ pc = "select"
    /\ data \in SeqsUpTo(SelectRecords, MaxRecords)
    /\ SelectIdle

\* invoice_ids = get_invoice_ids(data)
CallGetInvoiceIds ==
    /\ pc = "select"
    /\ invoice_ids' = get_invoice_ids(data)
    /\ pc' = "listed"
    /\ UNCHANGED <<data, query, record, template, html_content, font, pdf_html,
                   output, sel, last_input, exit_code, run, trail>>

\* record = find_record_by_invoice_id(data, q), for a listed id or any other string
CallFind(q) ==
    /\ pc = "listed"
    /\ query' = q
    /\ record' = find_record_by_invoice_id(data, q)
    /\ pc' = "found"
    /\ UNCHANGED <<data, invoice_ids, template, html_content, font, pdf_html,
                   output, sel, last_input, exit_code, run, trail>>

NextSelect ==
    \/ CallGetInvoiceIds
    \/ \E q \in Queries \cup {invoice_ids[i] : i \in 1..Len(invoice_ids)} : CallFind(q)

SpecSelect == InitSelect /\ [][NextSelect]_vars

-----------------------------------------------------------------------------
(* render_template on bounded templates and records *)

\* all concatenations of at most n pieces of P
RECURSIVE PieceSeqs(_, _)
PieceSeqs(P, n) ==
    IF n = 0 THEN {<<>>}
    ELSE LET shorter == PieceSeqs(P, n - 1)
         IN shorter \cup {q \o x : q \in shorter, x \in P}

EscapedA == <<"{", "{", "a", "}", "}">>

TemplatePieces == { <<"{">>, <<"}">>, <<":">>, <<"a">>, EscapedA }

DerivedTemplates ==
    { <<"{", "tax_row", "}">>, <<"{", "total_row", "}">>,
      <<"{", "tax", "}", "{", "tax_row", "}", "{", "total_row", "}">> }

RenderTemplates ==
    {[readable |-> TRUE, text |-> t] :
        t \in PieceSeqs(TemplatePieces, MaxTemplateLen) \cup DerivedTemplates}
    \cup {NoTemplate}

IdOne == Item("id", StrV(<<"1">>))

RenderRecords ==
    { <<IdOne>>,
      <<IdOne, Item("a", StrV(<<"v">>))>>,
      <<IdOne, Item("a", StrV(<<"{", "b", "}">>)), Item("b", StrV(<<"y">>))>>,
      <<IdOne, Item("b", StrV(<<"y">>)), Item("a", StrV(<<"{", "b", "}">>))>>,
      <<IdOne, Item("a", NoneV)>>,
      <<IdOne, Item("tax", StrV(<<"1", "0", "0">>)), Item("total", IntV(120))>>,
      <<IdOne, Item("tax", NoneV), Item("tax_row", StrV(<<"X">>))>>,
      <<IdOne, Item("a", StrV(<<"v">>)), Item("tax", NaNV)>> }

\* main() has chosen the record and the template and is about to render
InitRender ==
    /\ pc = "render"
    /\ template \in RenderTemplates
    /\ \E rec \in RenderRecords :
         /\ data = <<rec>>
         /\ record = [found |-> TRUE, rec |-> rec]
    /\ invoice_ids = <<<<"1">>>>
    /\ query = <<"1">>
    /\ sel = [data_files |-> 1, template_files |-> 1,
              data_choice |-> 1, template_choice |-> 1, invoice_choice |-> 1]
    /\ last_input = [at |-> "ask_invoice", inp |-> IntInput(1)]
    /\ exit_code = Running
    /\ run = 1
    /\ html_content = <<>>
    /\ pdf_html = <<>>
    /\ font = [found |-> FALSE, exists |-> FALSE]
    /\ output = EmptyDir
    /\ trail = NoTrail

NextRender == Render

SpecRender == InitRender /\ [][NextRender]_vars

-----------------------------------------------------------------------------
(* generate_pdf on bounded html *)

HtmlSymbols ==
    { "<style>", "<STYLE>", "<Style>", "</head>", "</HEAD>", "</Head>",
      "<body>", "<BODY>", "<Body>", "p{margin:0}" }

\* a PDF left in output/ by an earlier use of the tool
OldFile == [by |-> 0, html |-> <<"old">>, complete |-> TRUE]

\* main() has rendered a template without placeholders and is about to generate
InitGen ==
    /\ pc = "generate"
    /\ html_content \in SeqsUpTo(HtmlSymbols, MaxHtmlLen)
    /\ template = [readable |-> TRUE, text |-> html_content]
    /\ font \in Fonts
    /\ data = <<<<IdOne>>>>
    /\ record = [found |-> TRUE, rec |-> <<IdOne>>]
    /\ invoice_ids = <<<<"1">>>>
    /\ query = <<"1">>
    /\ sel = [data_files |-> 1, template_files |-> 1,
              data_choice |-> 1, template_choice |-> 1, invoice_choice |-> 1]
    /\ last_input = [at |-> "ask_invoice", inp |-> IntInput(1)]
    /\ exit_code = Running
    /\ run = 1
    /\ pdf_html = <<>>
    /\ output = [EmptyDir EXCEPT ![OutputPath(<<"1">>)] = OldFile]
    /\ trail = [NoTrail EXCEPT !.rendered = TRUE]

NextGen ==
    \/ GenPrepare
    \/ GenWrite

SpecGen == InitGen /\ [][NextGen]_vars

-----------------------------------------------------------------------------
(* Properties *)

\* C1: render_template never raises to its caller: on every processing failure,
\* a template file that cannot be opened or read included, it returns the original
\* unmodified template text.
C1_RenderNeverRaises ==
    pc # "render" =>
        /\ ~trail.raised
        /\ ~template.readable => html_content = template.text

\* the placeholders of key in the protected template text
PlaceholdersOf(text, key) ==
    {i \in 1..Len(Protect(text)) : PlaceholderEnd(Protect(text), i, key) # 0}

\* C2: substitution is not recursive: when the template's placeholders are all for
\* one key k1 and the value of k1 contains the text {k2} for another key k2 of the
\* merged mapping, that text appears literally in the rendered output.
C2_SubstitutionNotRecursive ==
    (pc = "generate" /\ trail.rendered) =>
        \A i \in 1..Len(TemplateData(record.rec)) :
            \A j \in 1..Len(TemplateData(record.rec)) :
                LET k1 == TemplateData(record.rec)[i][1]
                    v1 == TemplateData(record.rec)[i][2]
                    k2 == TemplateData(record.rec)[j][1]
                IN (/\ i # j
                    /\ HasSub(v1, <<"{", k2, "}">>)
                    /\ PlaceholdersOf(template.text, k1) # {}
                    /\ \A k \in Keys(TemplateData(record.rec)) \ {k1} :
                           PlaceholdersOf(template.text, k) = {})
                   => HasSub(html_content, <<"{", k2, "}">>)

\* C3: a template's escaped-brace sequence {{a}} is in the rendered output unchanged,
\* also when the record has a field a, and so is every literal {{ and }} of the
\* template.
C3_EscapedBracesSurvive ==
    (pc = "generate" /\ trail.rendered) =>
        /\ HasSub(template.text, EscapedA) => HasSub(html_content, EscapedA)
        /\ HasSub(template.text, <<"{", "{">>) => HasSub(html_content, <<"{", "{">>)
        /\ HasSub(template.text, <<"}", "}">>) => HasSub(html_content, <<"}", "}">>)

IdFields == <<"invoice_id", "invoiceId", "invoice", "id", "ID">>

\* the identifier fields of a record that hold a truthy value, by priority
TruthyIdFields(rec) ==
    {i \in 1..Len(IdFields) : IdFields[i] \in Keys(rec) /\ Truthy(Get(rec, IdFields[i]))}

HasIdentifier(rec) == TruthyIdFields(rec) # {}

\* the string form of the first present-and-truthy identifier field
IdentifierOf(rec) == Str(Get(rec, IdFields[Min(TruthyIdFields(rec))]))

\* C4: find_record_by_invoice_id returns nothing, whatever the query, when no record
\* of the dataset has a present-and-truthy value in any identifier field.
C4_FindNothingWithoutIdentifiers ==
    (pc = "found" /\ \A i \in 1..Len(data) : ~HasIdentifier(data[i])) => ~record.found

\* C5: when generate_pdf fails with an output-write error (the existing file cannot
\* be removed, the output path cannot be opened), the process exits non-zero.
C5_WriteErrorExitsNonZero ==
    (pc = "exited" /\ trail.gen \in {"unlink_failed", "open_failed"}) => exit_code > 0

\* s sorts before t as Python strings sort
LexBefore(s, t) ==
    \E k \in 1..(Len(t)) :
        /\ k <= Len(s) + 1
        /\ \A m \in 1..(k - 1) : s[m] = t[m]
        /\ \/ k = Len(s) + 1
           \/ k <= Len(s) /\ CodePoint(s[k]) < CodePoint(t[k])

\* C6: get_invoice_ids returns exactly the string forms of the identifiers the
\* fallback chain extracts (first present-and-truthy value of invoice_id, invoiceId,
\* invoice, id, ID), without duplicates, in strictly ascending lexicographic order.
C6_IdsSortedSetOfIdentifiers ==
    pc \in {"listed", "found"} =>
        /\ {invoice_ids[i] : i \in 1..Len(invoice_ids)}
             = {IdentifierOf(data[i]) : i \in {j \in 1..Len(data) : HasIdentifier(data[j])}}
        /\ \A i \in 1..Len(invoice_ids) : \A j \in 1..Len(invoice_ids) :
               i < j => LexBefore(invoice_ids[i], invoice_ids[j])

\* C6 witness: ids "2", "10", "1" are listed as "1", "10", "2"
C6_Witness ==
    /\ pc = "listed"
    /\ data = << <<Item("id", StrV(<<"2">>))>>, <<Item("id", StrV(<<"1", "0">>))>>,
                 <<Item("id", StrV(<<"1">>))>> >>
    /\ invoice_ids = << <<"1">>, <<"1", "0">>, <<"2">> >>

\* the files of output/ that carry the invoice id in their name
FilesOf(invoice_id) == {name \in FileNames : name[1] = invoice_id /\ output[name] # NoFile}

C7_State ==
    /\ pc = "write" => output[OutputPath(query)] = NoFile
    /\ trail.gen = "unlink_failed" =>
           /\ trail.raised
           /\ ~trail.renderer
           /\ pc = "exited"
    /\ trail.gen = "ok" =>
           /\ FilesOf(query) = {OutputPath(query)}
           /\ output[OutputPath(query)] = [by |-> run, html |-> pdf_html, complete |-> TRUE]

C7_Step ==
    (pc = "generate" /\ trail'.gen = "unlink_failed") =>
        /\ output[OutputPath(query)] # NoFile
        /\ output' = output

\* C7: generate_pdf removes a file that is at the output path before the renderer
\* writes; when the removal fails with an access error it raises, the renderer is not
\* invoked and the file is neither overwritten nor renamed; after a successful run
\* output/ holds exactly one file invoice_<id>.pdf, the one this run produced.
C7_RemoveBeforeWrite == [](C7_State) /\ [][C7_Step]_vars

\* C7 witness: a run that found the PDF of an earlier run and replaced it
C7_Witness ==
    /\ run = 2
    /\ trail.existed
    /\ trail.gen = "ok"
    /\ output[OutputPath(query)].by = 2

UniversalRules ==
    {"*{font-family:Arial,Helvetica,sans-serif!important}",
     "*{font-family:Arial,sans-serif!important}"}

FontFaceRules == {"@font-face{Arial;src:url}", "@font-face{sans-serif;src:url}"}

HasStyleBlock(html) ==
    Contains(html, "<style>") \/ Contains(html, "<STYLE>") \/ Contains(html, "<Style>")

\* C8: html that already has a style block reaches the renderer with the injected
\* @font-face and universal font-family override and with all it had, unchanged,
\* whichever anchor tags (head, body or none) it has.
C8_OverrideInjectedBesideStyles ==
    (pc # "generate" /\ HasStyleBlock(html_content)) =>
        /\ \E rule \in UniversalRules : Contains(pdf_html, rule)
        /\ (font.found /\ font.exists) => \A rule \in FontFaceRules : Contains(pdf_html, rule)
        /\ ReplaceAll(ReplaceAll(pdf_html, style_tag(font), <<>>), font_override(font), <<>>)
             = html_content

ClosingHeads == {"</head>", "</HEAD>", "</Head>"}
OpeningBodies == {"<body>", "<BODY>", "<Body>"}

Occurrences(html, S) == {i \in 1..Len(html) : html[i] \in S}

InsertAt(html, i, css) == SubSeq(html, 1, i) \o css \o SubSeq(html, i + 1, Len(html))

\* C9: html without any style block gets the full default stylesheet exactly once:
\* before the closing head tag if there is one, else right after the opening body
\* tag if there is one, else in front; tags are recognised in any letter case.
\* (Stated for documents with at most one head and one body.)
C9_DefaultStylesheetPlacement ==
    (/\ pc # "generate"
     /\ ~HasStyleBlock(html_content)
     /\ Cardinality(Occurrences(html_content, ClosingHeads)) <= 1
     /\ Cardinality(Occurrences(html_content, OpeningBodies)) <= 1) =>
        pdf_html =
            IF Occurrences(html_content, ClosingHeads) # {}
            THEN InsertAt(html_content, Min(Occurrences(html_content, ClosingHeads)) - 1,
                          style_tag(font))
            ELSE IF Occurrences(html_content, OpeningBodies) # {}
                 THEN InsertAt(html_content, Min(Occurrences(html_content, OpeningBodies)),
                               style_tag(font))
                 ELSE style_tag(font) \o html_content

PromptMax ==
    CASE pc = "ask_data" -> sel.data_files
      [] pc = "ask_template" -> sel.template_files
      [] pc = "ask_invoice" -> Len(invoice_ids)
      [] OTHER -> 0

C10_State ==
    /\ trail.cancelled =>
           /\ pc = "exited"
           /\ exit_code = 0
           /\ ~trail.rendered
           /\ ~trail.renderer
           /\ \A name \in FileNames : output[name].by # run
    /\ (pc \in {"generate", "write"} \/ trail.gen # "none") =>
           /\ sel.data_choice \in 1..sel.data_files
           /\ sel.template_choice \in 1..sel.template_files
           /\ sel.invoice_choice \in 1..Len(invoice_ids)

C10_Step ==
    pc \in Prompts =>
        LET inp == last_input'.inp
        IN /\ inp.kind \in {"empty", "interrupt"} =>
                  /\ pc' = "exited"
                  /\ exit_code' = 0
                  /\ trail'.cancelled
                  /\ output' = output
           /\ (inp.kind = "text" \/ (inp.kind = "int" /\ ~(inp.n \in 1..PromptMax))) =>
                  /\ pc' = pc
                  /\ sel' = sel
                  /\ exit_code' = Running
                  /\ output' = output
                  /\ trail' = trail

\* C10: an empty input or an interrupt at any of the three prompts ends the run with
\* exit code 0 and nothing rendered or written; a non-numeric or out-of-range input
\* asks again without advancing; generate_pdf is reached only with three selections
\* in 1..max.
C10_PromptsCancelOrReprompt == [](C10_State) /\ [][C10_Step]_vars

\* C10 witness: Ctrl-C at the third prompt, after two valid selections
C10_Witness ==
    /\ trail.cancelled
    /\ last_input = [at |-> "ask_invoice", inp |-> Interrupt]
    /\ sel.data_choice = 1
    /\ sel.template_choice = 1
    /\ exit_code = 0

-----------------------------------------------------------------------------
(* render_template on templates made of the derived placeholders *)

MaxDerivedLen == 3

TaxRowPlaceholder == <<"{", "tax_row", "}">>
TaxRowFormatted == <<"{", "tax_row", ":", "f", "}">>
TotalRowPlaceholder == <<"{", "total_row", "}">>

DerivedPieces == {TaxRowPlaceholder, TaxRowFormatted, TotalRowPlaceholder, <<"text">>}

\* records without tax or total, with them as str, int, '', 0, null and NaN, with
\* raw fields named tax_row and total_row, and with placeholder text as the tax
DerivedRecords ==
    { <<IdOne>>,
      <<IdOne, Item("tax", StrV(<<"1", "0", "0">>)), Item("total", IntV(120))>>,
      <<IdOne, Item("tax", NoneV), Item("tax_row", StrV(<<"X">>))>>,
      <<Item("tax_row", StrV(<<"X">>)), IdOne, Item("tax", StrV(<<"1", "0", "0">>)),
        Item("total_row", StrV(<<"Y">>))>>,
      <<IdOne, Item("tax", NaNV)>>,
      <<IdOne, Item("tax", IntV(0)), Item("total", StrV(<<>>))>>,
      <<IdOne, Item("total", NoneV), Item("tax", StrV(<<"7">>))>>,
      <<IdOne, Item("total", StrV(<<"5">>))>>,
      <<IdOne, Item("tax", StrV(<<"{", "total_row", "}">>)), Item("total", StrV(<<"5">>))>> }

\* main() has chosen the record and the template and is about to render
InitDerived ==
    /\ pc = "render"
    /\ \E t \in PieceSeqs(DerivedPieces, MaxDerivedLen) :
         template = [readable |-> TRUE, text |-> t]
    /\ \E rec \in DerivedRecords :
         /\ data = <<rec>>
         /\ record = [found |-> TRUE, rec |-> rec]
    /\ invoice_ids = <<<<"1">>>>
    /\ query = <<"1">>
    /\ sel = [data_files |-> 1, template_files |-> 1,
              data_choice |-> 1, template_choice |-> 1, invoice_choice |-> 1]
    /\ last_input = [at |-> "ask_invoice", inp |-> IntInput(1)]
    /\ exit_code = Running
    /\ run = 1
    /\ html_content = <<>>
    /\ pdf_html = <<>>
    /\ font = [found |-> FALSE, exists |-> FALSE]
    /\ output = EmptyDir
    /\ trail = NoTrail

NextDerived == Render

SpecDerived == InitDerived /\ [][NextDerived]_vars

\* what a derived placeholder stands for: nothing when the field is missing or
\* null, else the fragment with the field's string form and the currency label
ExpectedRow(rec, field, label) ==
    IF field \notin Keys(rec) \/ Get(rec, field) = NoneV THEN <<>>
    ELSE <<label, ":", "</span><span>">> \o Str(Get(rec, field)) \o <<" rub.</span></div>">>

ExpectedTaxRow(rec) == ExpectedRow(rec, "tax", "<div class=amount-row><span>NDS")
ExpectedTotalRow(rec) == ExpectedRow(rec, "total", "<div class=amount-row total><span>Itogo")

\* the template with every derived placeholder replaced by what it stands for
RECURSIVE ExpectedText(_, _)
ExpectedText(text, rec) ==
    IF text = <<>> THEN <<>>
    ELSE IF MatchesAt(text, 1, TaxRowPlaceholder)
         THEN ExpectedTaxRow(rec) \o ExpectedText(SubSeq(text, 4, Len(text)), rec)
    ELSE IF MatchesAt(text, 1, TaxRowFormatted)
         THEN ExpectedTaxRow(rec) \o ExpectedText(SubSeq(text, 6, Len(text)), rec)
    ELSE IF MatchesAt(text, 1, TotalRowPlaceholder)
         THEN ExpectedTotalRow(rec) \o ExpectedText(SubSeq(text, 4, Len(text)), rec)
    ELSE <<Head(text)>> \o ExpectedText(Tail(text), rec)

\* the entries of the merged mapping under a key
EntriesOf(d, key) == {i \in 1..Len(d) : d[i][1] = key}

\* the field's string form carries no brace, so nothing in it is a placeholder
PlainField(rec, field) == ~Contains(Str(Get(rec, field)), "{")

RecordsWithId(d, invoice_id) ==
    {i \in 1..Len(d) : HasIdentifier(d[i]) /\ IdentifierOf(d[i]) = invoice_id}

\* C12: for every id that get_invoice_ids lists, find_record_by_invoice_id returns
\* the first record in load order whose identifier is present and truthy and has
\* that string form; it never returns a record without identifier.
C12_SelectionConsistency ==
    (pc = "found" /\ Contains(invoice_ids, query)) =>
        /\ record.found
        /\ HasIdentifier(record.rec)
        /\ IdentifierOf(record.rec) = query
        /\ record.rec = data[Min(RecordsWithId(data, query))]

=============================================================================
